---- MODULE Spec2Model ----
(***************************************************************************)
(* Auto-edit gating pipeline of vscode/src/autoedits/                      *)
(* create-autoedits-provider.ts: the eligibility evaluator                 *)
(* (isUserEligibleForAutoeditsFeature), the reactive pipeline built by     *)
(* createAutoEditsProvider and the resource set it keeps registered, and   *)
(* the ineligibility notification.                                         *)
(*                                                                         *)
(* Each invocation of createAutoEditsProvider gets a number (gen). The     *)
(* caller re-invokes it on every upstream change, tearing the previous     *)
(* invocation's subscription down first (latest wins).                     *)
(***************************************************************************)
EXTENDS Integers, Sequences, FiniteSets, TLC

VARIABLES
    experimentalAutoEditEnabled,  \* config.configuration.experimentalAutoEditEnabled
    authStatus,                   \* [authenticated, pendingValidation]
    autoeditsFeatureFlagEnabled,  \* the feature-flag boolean of the snapshot
    testing,                      \* process.env.CODY_TESTING === 'true'
    insideAgent,                  \* isRunningInsideAgent()
    nullIsFree,                   \* policy of isFreeUser for a null subscription
    gen,                          \* number of invocations of createAutoEditsProvider so far
    status,                       \* state of the latest invocation's subscription
    startedFetches,               \* invocations whose subscription fetch was started
    pendingFetches,               \* subscription fetches not yet resolved
    verdicts,                     \* per invocation: the verdict the evaluator returned
    emitted,                      \* invocations whose pipeline emitted a value
    disposables,                  \* createDisposables' current list of handles
    registered,                   \* handles active in the host (not yet disposed)
    disposeCount,                 \* per handle: how many times dispose() was called on it
    notifications,                \* calls of the notification handler, in order
    suggestionsMode,              \* global 'cody.suggestions.mode'
    thrown,                       \* invocations whose tick threw out of the pipeline
    lastOp,                       \* the last step taken
    probe,                        \* a standalone call of the evaluator: input and result
    manualTrigger                 \* per invocation of the manual-trigger command: what it issued

vars == <<experimentalAutoEditEnabled, authStatus, autoeditsFeatureFlagEnabled,
          testing, insideAgent, nullIsFree, gen, status,
          startedFetches, pendingFetches, verdicts, emitted, disposables,
          registered, disposeCount, notifications, suggestionsMode, thrown,
          lastOp, probe, manualTrigger>>

upstream == <<experimentalAutoEditEnabled, authStatus, autoeditsFeatureFlagEnabled>>
environment == <<testing, insideAgent, nullIsFree>>
resources == <<disposables, registered, disposeCount>>

----------------------------------------------------------------------------
(* Bounds *)

MaxTicks == 3

\* invocations of the manual-trigger command
MaxRuns == 2

Runs == 1..MaxRuns

Gens == 1..MaxTicks

----------------------------------------------------------------------------
(* Values *)

Undefined == "undefined"

ONLY_VSCODE_SUPPORT == "Auto-edit is currently only supported in VS Code."
PRO_USER_ONLY == "Auto-edit requires Cody Pro subscription."
FEATURE_FLAG_NOT_ELIGIBLE == "Auto-edit is an experimental feature and currently not enabled for your account. Please check back later."

AUTOEDITS_NON_ELIGIBILITY_MESSAGES ==
    {ONLY_VSCODE_SUPPORT, PRO_USER_ONLY, FEATURE_FLAG_NOT_ELIGIBLE}

AuthStatus ==
    { [authenticated |-> TRUE,  pendingValidation |-> FALSE],
      [authenticated |-> FALSE, pendingValidation |-> TRUE],
      [authenticated |-> FALSE, pendingValidation |-> FALSE] }

\* UserProductSubscription | null
UserProductSubscription == {"null", "free", "pro"}

AutoeditsUserEligibilityInfo ==
    [isUserEligible : BOOLEAN,
     nonEligibilityReason : AUTOEDITS_NON_ELIGIBILITY_MESSAGES \cup {Undefined}]

\* the entry of an invocation whose evaluator has not been invoked
NoVerdict == [isUserEligible |-> FALSE, nonEligibilityReason |-> "no verdict"]

switchToAutocompleteText == "Switch to autocomplete"

Range(s) == {s[i] : i \in DOMAIN s}

----------------------------------------------------------------------------
(* EligibilityEvaluator *)

\* isFreeUser of the shared library: the resolved subscription is a free plan;
\* what a null subscription counts as is a policy the library fixes.
isFreeUser(auth, productSubscription) ==
    \/ productSubscription = "free"
    \/ productSubscription = "null" /\ nullIsFree

\* the evaluator with the runtime check put before the test-mode check
isUserEligibleAgentFirst(flagEnabled, auth, productSubscription) ==
    IF insideAgent
    THEN [isUserEligible |-> FALSE, nonEligibilityReason |-> ONLY_VSCODE_SUPPORT]
    ELSE IF testing
    THEN [isUserEligible |-> TRUE, nonEligibilityReason |-> Undefined]
    ELSE IF isFreeUser(auth, productSubscription)
    THEN [isUserEligible |-> FALSE, nonEligibilityReason |-> PRO_USER_ONLY]
    ELSE [isUserEligible |-> flagEnabled,
          nonEligibilityReason |->
              IF flagEnabled THEN Undefined ELSE FEATURE_FLAG_NOT_ELIGIBLE]

\* the evaluator with the free-plan check put before the runtime check
isUserEligibleFreeFirst(flagEnabled, auth, productSubscription) ==
    IF testing
    THEN [isUserEligible |-> TRUE, nonEligibilityReason |-> Undefined]
    ELSE IF isFreeUser(auth, productSubscription)
    THEN [isUserEligible |-> FALSE, nonEligibilityReason |-> PRO_USER_ONLY]
    ELSE IF insideAgent
    THEN [isUserEligible |-> FALSE, nonEligibilityReason |-> ONLY_VSCODE_SUPPORT]
    ELSE [isUserEligible |-> flagEnabled,
          nonEligibilityReason |->
              IF flagEnabled THEN Undefined ELSE FEATURE_FLAG_NOT_ELIGIBLE]

\* the evaluator with the flag check put before the free-plan check
isUserEligibleFlagFirst(flagEnabled, auth, productSubscription) ==
    IF testing
    THEN [isUserEligible |-> TRUE, nonEligibilityReason |-> Undefined]
    ELSE IF insideAgent
    THEN [isUserEligible |-> FALSE, nonEligibilityReason |-> ONLY_VSCODE_SUPPORT]
    ELSE IF ~flagEnabled
    THEN [isUserEligible |-> FALSE, nonEligibilityReason |-> FEATURE_FLAG_NOT_ELIGIBLE]
    ELSE IF isFreeUser(auth, productSubscription)
    THEN [isUserEligible |-> FALSE, nonEligibilityReason |-> PRO_USER_ONLY]
    ELSE [isUserEligible |-> TRUE, nonEligibilityReason |-> Undefined]

\* the evaluator with every paid user eligible, whatever the flag
isUserEligibleIgnoresFlag(flagEnabled, auth, productSubscription) ==
    IF testing
    THEN [isUserEligible |-> TRUE, nonEligibilityReason |-> Undefined]
    ELSE IF insideAgent
    THEN [isUserEligible |-> FALSE, nonEligibilityReason |-> ONLY_VSCODE_SUPPORT]
    ELSE IF isFreeUser(auth, productSubscription)
    THEN [isUserEligible |-> FALSE, nonEligibilityReason |-> PRO_USER_ONLY]
    ELSE [isUserEligible |-> TRUE, nonEligibilityReason |-> Undefined]

\* the evaluator with the flag message set whatever the flag is (the
\* conditional of lines 161-163 dropped)
isUserEligibleReasonAlways(flagEnabled, auth, productSubscription) ==
    IF testing
    THEN [isUserEligible |-> TRUE, nonEligibilityReason |-> Undefined]
    ELSE IF insideAgent
    THEN [isUserEligible |-> FALSE, nonEligibilityReason |-> ONLY_VSCODE_SUPPORT]
    ELSE IF isFreeUser(auth, productSubscription)
    THEN [isUserEligible |-> FALSE, nonEligibilityReason |-> PRO_USER_ONLY]
    ELSE [isUserEligible |-> flagEnabled,
          nonEligibilityReason |-> FEATURE_FLAG_NOT_ELIGIBLE]

isUserEligibleForAutoeditsFeature(flagEnabled, auth, productSubscription) ==
    IF testing
    THEN [isUserEligible |-> TRUE, nonEligibilityReason |-> Undefined]
    ELSE IF insideAgent
    THEN [isUserEligible |-> FALSE, nonEligibilityReason |-> ONLY_VSCODE_SUPPORT]
    ELSE IF isFreeUser(auth, productSubscription)
    THEN [isUserEligible |-> FALSE, nonEligibilityReason |-> PRO_USER_ONLY]
    ELSE [isUserEligible |-> flagEnabled,
          nonEligibilityReason |->
              IF flagEnabled THEN Undefined ELSE FEATURE_FLAG_NOT_ELIGIBLE]

----------------------------------------------------------------------------
(* Resource set *)

Handle(kind, g) == [kind |-> kind, gen |-> g]

\* the array with one provider instance kept and returned again by every
\* invocation, instead of a new one each time (line 88)
ResourceSetSharedProvider(g) ==
    << Handle("command", g), Handle("providerRegistration", g), Handle("provider", 1) >>

\* lines 88-99: the array the createDisposables callback returns
ResourceSet(g) ==
    << Handle("command", g), Handle("providerRegistration", g), Handle("provider", g) >>

\* the points of lines 88-97 at which building the set can throw
BuildFailPoints == {"provider", "command", "providerRegistration"}

\* where a tick's host call fails ("none": nowhere); "notification": the
\* showErrorMessage call of line 110 rejects
FailPoints == {"none", "notification"} \cup BuildFailPoints

\* lines 88-99: the handles live in the host when the building of the set
\* ends at failAt: the array's elements are evaluated in order, after the
\* provider was constructed.
Built(g, failAt) ==
    CASE failAt = "none" -> Range(ResourceSet(g))
      [] failAt = "provider" -> {}
      [] failAt = "command" -> {Handle("provider", g)}
      [] failAt = "providerRegistration" -> {Handle("provider", g), Handle("command", g)}

\* vscode.commands.registerCommand throws when the command id is registered
CommandExists(reg) == \E h \in reg : h.kind = "command"

\* createDisposables' disposeAll: every handle of the current list is disposed
disposeAll(reg, ds) == reg \ Range(ds)

AllHandles == {Handle(kind, g) : kind \in {"command", "providerRegistration", "provider"},
                                 g \in Gens}

\* disposeAll calls dispose() once on each handle of the current list
Disposed(count, ds) ==
    [h \in AllHandles |-> IF h \in Range(ds) THEN count[h] + 1 ELSE count[h]]

\* the message of the prompt: `Error: ${nonEligibilityReason ?? FEATURE_FLAG_NOT_ELIGIBLE}`
PromptMessage(nonEligibilityReason) ==
    IF nonEligibilityReason = Undefined
    THEN FEATURE_FLAG_NOT_ELIGIBLE
    ELSE nonEligibilityReason

----------------------------------------------------------------------------
(* LifecycleCoordinator *)

InitPipeline ==
    /\ gen = 0
    /\ status = "idle"
    /\ startedFetches = {}
    /\ pendingFetches = {}
    /\ verdicts = [g \in Gens |-> NoVerdict]
    /\ emitted = {}
    /\ disposables = <<>>
    /\ registered = {}
    /\ disposeCount = [h \in AllHandles |-> 0]
    /\ notifications = <<>>
    /\ suggestionsMode = "auto-edit"
    /\ thrown = {}
    /\ lastOp = [op |-> "init", gen |-> 0]
    /\ probe = [applied |-> FALSE]
    /\ manualTrigger = [r \in Runs |-> [hide |-> "none", trigger |-> "none"]]

Init ==
    /\ experimentalAutoEditEnabled \in BOOLEAN
    /\ authStatus \in AuthStatus
    /\ autoeditsFeatureFlagEnabled \in BOOLEAN
    /\ testing \in BOOLEAN
    /\ insideAgent \in BOOLEAN
    /\ nullIsFree \in BOOLEAN
    /\ InitPipeline

\* createAutoEditsProvider without the check of lines 66-71
createAutoEditsProviderNoAuthCheck(enabled, auth) ==
    IF ~enabled
    THEN "NEVER"
    ELSE "pipeline"

\* lines 61-76: what createAutoEditsProvider returns for a snapshot: NEVER,
\* or the pipeline over the subscription fetch. (The debug line of line 68
\* changes no state of the model.)
createAutoEditsProvider(enabled, auth) ==
    IF ~enabled
    THEN "NEVER"
    ELSE IF ~auth.authenticated
    THEN "NEVER"
    ELSE "pipeline"

\* Invoke with the callback's verdict computed on a null subscription as soon
\* as the pipeline is subscribed, before the fetch has resolved
InvokeEvaluatesBeforeFetch(g, enabled, auth, flagEnabled) ==
    LET returned == createAutoEditsProvider(enabled, auth) IN
    /\ gen' = g
    /\ IF returned = "NEVER"
       THEN /\ status' = "never"
            /\ UNCHANGED <<startedFetches, pendingFetches, verdicts, emitted>>
       ELSE /\ status' = "fetching"
            /\ startedFetches' = startedFetches \cup {g}
            /\ pendingFetches' = pendingFetches \cup {g}
            /\ verdicts' = [verdicts EXCEPT ![g] =
                    isUserEligibleForAutoeditsFeature(flagEnabled, auth, "null")]
            /\ emitted' = emitted \cup {g}

\* lines 55-76: createAutoEditsProvider is invoked with the snapshot and what
\* it returns is subscribed to. NEVER does nothing; subscribing to the
\* pipeline starts the subscription fetch and evaluates nothing yet.
Invoke(g, enabled, auth, flagEnabled) ==
    LET returned == createAutoEditsProvider(enabled, auth) IN
    /\ gen' = g
    /\ IF returned = "NEVER"
       THEN /\ status' = "never"
            /\ UNCHANGED <<startedFetches, pendingFetches, verdicts, emitted>>
       ELSE /\ status' = "fetching"
            /\ startedFetches' = startedFetches \cup {g}
            /\ pendingFetches' = pendingFetches \cup {g}
            /\ UNCHANGED <<verdicts, emitted>>

\* The first snapshot: the pipeline is started.
Start ==
    /\ status = "idle"
    /\ gen < MaxTicks
    /\ Invoke(gen + 1, experimentalAutoEditEnabled, authStatus,
              autoeditsFeatureFlagEnabled)
    /\ lastOp' = [op |-> "start", gen |-> gen + 1]
    /\ UNCHANGED <<upstream, environment, resources,
                   notifications, suggestionsMode, thrown, probe, manualTrigger>>

\* An upstream change: the previous invocation's subscription is torn down
\* (createDisposables disposes its list) and createAutoEditsProvider is
\* invoked with the new snapshot.
Tick(enabled, auth, flagEnabled) ==
    /\ status \in {"never", "fetching", "active", "failed"}
    /\ gen < MaxTicks
    /\ <<enabled, auth, flagEnabled>> # upstream
    /\ experimentalAutoEditEnabled' = enabled
    /\ authStatus' = auth
    /\ autoeditsFeatureFlagEnabled' = flagEnabled
    /\ registered' = disposeAll(registered, disposables)
    /\ disposeCount' = Disposed(disposeCount, disposables)
    /\ disposables' = <<>>
    /\ Invoke(gen + 1, enabled, auth, flagEnabled)
    /\ lastOp' = [op |-> "tick", gen |-> gen + 1]
    /\ UNCHANGED <<environment, notifications,
                   suggestionsMode, thrown, probe, manualTrigger>>

\* lines 83-86 with the notification awaited: the tick does not complete
\* until the prompt is answered
OnIneligibleAwaitsPrompt(g, cleared, nonEligibilityReason, failAt) ==
    /\ notifications' = Append(notifications,
            [gen |-> g,
             message |-> PromptMessage(nonEligibilityReason),
             state |-> IF failAt = "notification" THEN "failed" ELSE "shown"])
    /\ disposables' = <<>>
    /\ registered' = cleared
    /\ status' = IF failAt = "notification" THEN "active" ELSE "notifying"
    /\ emitted' = IF failAt = "notification" THEN emitted \cup {g} ELSE emitted
    /\ UNCHANGED thrown

\* lines 83-86 with the handler's rejection thrown out of the callback
OnIneligibleFailurePropagates(g, cleared, nonEligibilityReason, failAt) ==
    /\ notifications' = Append(notifications,
            [gen |-> g,
             message |-> PromptMessage(nonEligibilityReason),
             state |-> IF failAt = "notification" THEN "failed" ELSE "shown"])
    /\ disposables' = <<>>
    /\ registered' = cleared
    /\ IF failAt = "notification"
       THEN /\ thrown' = thrown \cup {g}
            /\ status' = "failed"
            /\ UNCHANGED emitted
       ELSE /\ emitted' = emitted \cup {g}
            /\ status' = "active"
            /\ UNCHANGED thrown

\* lines 83-86: the verdict is ineligible. The notification handler is called
\* and not awaited (it runs to its first await: the prompt is shown, or the
\* call rejects), and the callback returns the empty list.
OnIneligible(g, cleared, nonEligibilityReason, failAt) ==
    /\ notifications' = Append(notifications,
            [gen |-> g,
             message |-> PromptMessage(nonEligibilityReason),
             state |-> IF failAt = "notification" THEN "failed" ELSE "shown"])
    /\ disposables' = <<>>
    /\ registered' = cleared
    /\ emitted' = emitted \cup {g}
    /\ status' = "active"
    /\ UNCHANGED thrown

\* lines 77-100: createDisposables' next. The previous list is disposed, then
\* the callback runs on the value the fetch produced; failAt is where a host
\* call of the tick fails ("none": nowhere).
OnNext(g, userProductSubscription, failAt) ==
    LET userEligibilityInfo ==
            isUserEligibleForAutoeditsFeature(
                autoeditsFeatureFlagEnabled, authStatus, userProductSubscription)
        cleared == disposeAll(registered, disposables)
    IN
    /\ failAt \in BuildFailPoints => userEligibilityInfo.isUserEligible
    /\ failAt = "notification" => ~userEligibilityInfo.isUserEligible
    /\ (userEligibilityInfo.isUserEligible /\ CommandExists(cleared))
            => failAt \in {"provider", "command"}
    /\ verdicts' = [verdicts EXCEPT ![g] = userEligibilityInfo]
    /\ disposeCount' = Disposed(disposeCount, disposables)
    /\ IF ~userEligibilityInfo.isUserEligible
       THEN OnIneligible(g, cleared, userEligibilityInfo.nonEligibilityReason, failAt)
       ELSE IF failAt = "none"
       THEN /\ disposables' = ResourceSet(g)
            /\ registered' = cleared \cup Built(g, failAt)
            /\ emitted' = emitted \cup {g}
            /\ status' = "active"
            /\ UNCHANGED <<notifications, thrown>>
       ELSE /\ disposables' = <<>>
            /\ registered' = cleared \cup Built(g, failAt)
            /\ thrown' = thrown \cup {g}
            /\ status' = "failed"
            /\ UNCHANGED <<notifications, emitted>>

\* The value of a fetch is delivered only to the subscription that started
\* it, and only while that subscription is the live one (latest wins).
Subscribed(g) == g = gen /\ status = "fetching"

\* FetchResolve with the value handed to the callback whether or not the
\* invocation that started the fetch is still the subscribed one
FetchResolveUnguarded(g, userProductSubscription, failAt) ==
    /\ g \in pendingFetches
    /\ pendingFetches' = pendingFetches \ {g}
    /\ OnNext(g, userProductSubscription, failAt)
    /\ lastOp' = [op |-> "resolve", gen |-> g]
    /\ UNCHANGED <<upstream, environment, gen, startedFetches,
                   suggestionsMode, probe, manualTrigger>>

\* lines 73-76: the subscription fetch of invocation g resolves. Its value
\* reaches the pipeline only while that invocation's subscription is live.
FetchResolve(g, userProductSubscription, failAt) ==
    /\ g \in pendingFetches
    /\ pendingFetches' = pendingFetches \ {g}
    /\ IF Subscribed(g)
       THEN /\ OnNext(g, userProductSubscription, failAt)
            /\ lastOp' = [op |-> "resolve", gen |-> g]
       ELSE /\ failAt = "none"
            /\ lastOp' = [op |-> "staleResolve", gen |-> g]
            /\ UNCHANGED <<verdicts, emitted, resources, notifications, status, thrown>>
    /\ UNCHANGED <<upstream, environment, gen, startedFetches,
                   suggestionsMode, probe, manualTrigger>>

\* The pipeline's subscription is torn down (or the pipeline completes).
Stop ==
    /\ status # "idle"
    /\ status' = "stopped"
    /\ registered' = disposeAll(registered, disposables)
    /\ disposeCount' = Disposed(disposeCount, disposables)
    /\ disposables' = <<>>
    /\ lastOp' = [op |-> IF status = "stopped" THEN "stopAgain" ELSE "stop", gen |-> gen]
    /\ UNCHANGED <<upstream, environment, gen, startedFetches,
                   pendingFetches, verdicts, emitted, notifications,
                   suggestionsMode, thrown, probe, manualTrigger>>

\* Respond with the configuration updated whatever the answer is
RespondAlwaysUpdates(i, selection, updateFails) ==
    /\ i \in DOMAIN notifications
    /\ notifications[i].state = "shown"
    /\ updateFails => selection = switchToAutocompleteText
    /\ notifications' = [notifications EXCEPT ![i].state =
            IF selection # switchToAutocompleteText THEN "dismissed"
            ELSE IF updateFails THEN "updateFailed" ELSE "selected"]
    /\ suggestionsMode' = IF updateFails THEN suggestionsMode ELSE "autocomplete"
    /\ lastOp' = [op |-> "respond", gen |-> notifications[i].gen]
    /\ UNCHANGED <<upstream, environment, gen, status, startedFetches,
                   pendingFetches, verdicts, emitted, resources, thrown, probe, manualTrigger>>

\* lines 110-122: the user answers prompt i (selection: the action, or
\* undefined when the prompt is dismissed) and the handler continues: on the
\* action it updates the global configuration, which the host may reject.
Respond(i, selection, updateFails) ==
    /\ i \in DOMAIN notifications
    /\ notifications[i].state = "shown"
    /\ updateFails => selection = switchToAutocompleteText
    /\ notifications' = [notifications EXCEPT ![i].state =
            IF selection # switchToAutocompleteText THEN "dismissed"
            ELSE IF updateFails THEN "updateFailed" ELSE "selected"]
    /\ suggestionsMode' =
            IF selection = switchToAutocompleteText /\ ~updateFails
            THEN "autocomplete"
            ELSE suggestionsMode
    /\ lastOp' = [op |-> "respond", gen |-> notifications[i].gen]
    /\ UNCHANGED <<upstream, environment, gen, status, startedFetches,
                   pendingFetches, verdicts, emitted, resources, thrown, probe, manualTrigger>>

Next ==
    \/ Start
    \/ \E enabled \in BOOLEAN, auth \in AuthStatus, flagEnabled \in BOOLEAN :
          Tick(enabled, auth, flagEnabled)
    \/ \E g \in Gens, sub \in UserProductSubscription, failAt \in FailPoints :
          FetchResolve(g, sub, failAt)
    \/ Stop
    \/ \E i \in Gens, selection \in {switchToAutocompleteText, Undefined},
          updateFails \in BOOLEAN :
          Respond(i, selection, updateFails)

Spec == Init /\ [][Next]_vars

AnyTick ==
    \E enabled \in BOOLEAN, auth \in AuthStatus, flagEnabled \in BOOLEAN :
        Tick(enabled, auth, flagEnabled)

----------------------------------------------------------------------------
(* The evaluator called on its own *)

InitEval ==
    /\ experimentalAutoEditEnabled = TRUE
    /\ authStatus = [authenticated |-> TRUE, pendingValidation |-> FALSE]
    /\ autoeditsFeatureFlagEnabled = TRUE
    /\ testing \in BOOLEAN
    /\ insideAgent \in BOOLEAN
    /\ nullIsFree \in BOOLEAN
    /\ InitPipeline

\* A caller's snapshot handed to createAutoEditsProvider and to the exported
\* evaluator: what each returns for it.
Probe(enabled, flagEnabled, auth, productSubscription) ==
    /\ probe' = [applied |-> TRUE,
                 experimentalAutoEditEnabled |-> enabled,
                 returned |-> createAutoEditsProvider(enabled, auth),
                 autoeditsFeatureFlagEnabled |-> flagEnabled,
                 authStatus |-> auth,
                 productSubscription |-> productSubscription,
                 result |-> isUserEligibleForAutoeditsFeature(
                                flagEnabled, auth, productSubscription)]
    /\ lastOp' = [op |-> "probe", gen |-> 0]
    /\ UNCHANGED <<upstream, environment, gen, status, startedFetches,
                   pendingFetches, verdicts, emitted, resources, notifications,
                   suggestionsMode, thrown, manualTrigger>>

NextEval ==
    \E enabled \in BOOLEAN, flagEnabled \in BOOLEAN, auth \in AuthStatus,
       productSubscription \in UserProductSubscription :
          Probe(enabled, flagEnabled, auth, productSubscription)

SpecEval == InitEval /\ [][NextEval]_vars

----------------------------------------------------------------------------
(* The manual-trigger command, lines 90-93 *)

\* the handler with the two host commands issued without awaiting the first
ManualTriggerNoAwait(r) ==
    /\ CommandExists(registered)
    /\ manualTrigger[r] = [hide |-> "none", trigger |-> "none"]
    /\ manualTrigger' = [manualTrigger EXCEPT ![r] =
            [hide |-> "issued", trigger |-> "issued"]]
    /\ lastOp' = [op |-> "manualTrigger", gen |-> gen]
    /\ UNCHANGED <<upstream, environment, gen, status, startedFetches,
                   pendingFetches, verdicts, emitted, resources, notifications,
                   suggestionsMode, thrown, probe>>

\* line 91: 'cody.command.autoedit-manual-trigger' is invoked while it is
\* registered; the handler issues editor.action.inlineSuggest.hide and awaits it.
ManualTrigger(r) ==
    /\ CommandExists(registered)
    /\ manualTrigger[r] = [hide |-> "none", trigger |-> "none"]
    /\ manualTrigger' = [manualTrigger EXCEPT ![r].hide = "issued"]
    /\ lastOp' = [op |-> "manualTrigger", gen |-> gen]
    /\ UNCHANGED <<upstream, environment, gen, status, startedFetches,
                   pendingFetches, verdicts, emitted, resources, notifications,
                   suggestionsMode, thrown, probe>>

\* lines 91-92: the host settles the hide command of run r. When it completed
\* the handler resumes and issues editor.action.inlineSuggest.trigger; when
\* it failed the await throws and the handler ends.
HideSettles(r, ok) ==
    /\ manualTrigger[r].hide = "issued"
    /\ manualTrigger[r].trigger = "none"
    /\ manualTrigger' = [manualTrigger EXCEPT ![r] =
            IF ok
            THEN [hide |-> "completed", trigger |-> "issued"]
            ELSE [hide |-> "failed", trigger |-> "none"]]
    /\ lastOp' = [op |-> "hideSettles", gen |-> gen]
    /\ UNCHANGED <<upstream, environment, gen, status, startedFetches,
                   pendingFetches, verdicts, emitted, resources, notifications,
                   suggestionsMode, thrown, probe>>

\* line 92: the host completes the trigger command of run r.
TriggerCompletes(r) ==
    /\ manualTrigger[r].trigger = "issued"
    /\ manualTrigger[r].hide # "issued"
    /\ manualTrigger' = [manualTrigger EXCEPT ![r].trigger = "completed"]
    /\ lastOp' = [op |-> "triggerCompletes", gen |-> gen]
    /\ UNCHANGED <<upstream, environment, gen, status, startedFetches,
                   pendingFetches, verdicts, emitted, resources, notifications,
                   suggestionsMode, thrown, probe>>

NextCommand ==
    \/ Start
    \/ \E g \in Gens, sub \in UserProductSubscription, failAt \in FailPoints :
          FetchResolve(g, sub, failAt)
    \/ Stop
    \/ \E r \in Runs : ManualTrigger(r)
    \/ \E r \in Runs, ok \in BOOLEAN : HideSettles(r, ok)
    \/ \E r \in Runs : TriggerCompletes(r)

SpecCommand == Init /\ [][NextCommand]_vars

----------------------------------------------------------------------------
(* Properties *)

NotifiedFor(g) == \E i \in DOMAIN notifications : notifications[i].gen = g

\* a prompt was presented for invocation g
ShownFor(g) ==
    \E i \in DOMAIN notifications :
        notifications[i].gen = g /\ notifications[i].state # "failed"

\* the notification handler's promise of invocation g rejected
RejectedFor(g) ==
    \E i \in DOMAIN notifications :
        notifications[i].gen = g /\ notifications[i].state \in {"failed", "updateFailed"}

HandlesOf(g) == {h \in registered : h.gen = g}

\* C1: in every reachable state at most one resource set is registered: the
\* handles active in the host all belong to one set, so that a new set was
\* created only after every handle of the previous one was disposed.
C1_AtMostOneResourceSet ==
    \A h1, h2 \in registered : h1.gen = h2.gen

\* C2: once a tick has been fully processed, a resource set is active if and
\* only if that tick's verdict is eligible: exactly the set of that tick when
\* eligible, nothing when ineligible.
C2_ActiveIffEligible ==
    status = "active" =>
        registered = IF verdicts[gen].isUserEligible
                     THEN Range(ResourceSet(gen))
                     ELSE {}

\* C3: no handle is still active while the subscription that created it has
\* ended: a superseded invocation has no active handle, and after the
\* pipeline's teardown no handle is active.
C3_NoHandleOutlivesSubscription ==
    \A h \in registered : h.gen = gen /\ status # "stopped"

\* C4: a fetch that resolves after a newer tick superseded its invocation
\* changes nothing: no verdict, no resource set created or disposed, no
\* notification, no emission, no error.
C4_StaleFetchIgnored ==
    [][\A g \in Gens :
          (g \in pendingFetches /\ g \notin pendingFetches' /\ g < gen)
              => UNCHANGED <<verdicts, emitted, disposables, registered,
                             notifications, status, thrown>>]_vars

C4_Witness ==
    /\ lastOp.op = "staleResolve"
    /\ lastOp.gen < gen
    /\ verdicts[gen] # NoVerdict
    /\ registered # {}

\* C5: while the invocation's master switch is off or its user is not
\* authenticated, the invocation starts no fetch, computes no verdict, emits
\* nothing, registers no handle and shows no notification.
C5_SuppressedWhenOffOrUnauthenticated ==
    (gen > 0 /\ (~experimentalAutoEditEnabled \/ ~authStatus.authenticated)) =>
        /\ gen \notin startedFetches
        /\ verdicts[gen] = NoVerdict
        /\ gen \notin emitted
        /\ HandlesOf(gen) = {}
        /\ disposables = <<>>
        /\ ~NotifiedFor(gen)

C5_Witness ==
    /\ gen >= 2
    /\ status = "never"
    /\ experimentalAutoEditEnabled
    /\ ~authStatus.authenticated
    /\ emitted # {}

\* C6: when the building of the resource set throws, no handle registered
\* during that tick is left active.
C6_NoPartialSetAfterFailure ==
    \A g \in thrown : HandlesOf(g) = {}

\* C7: a tick whose verdict is ineligible for the same reason as the verdict
\* of the tick before it shows no notification again.
C7_OneNotificationPerTransition ==
    \A g \in Gens :
        (/\ g > 1
         /\ verdicts[g] # NoVerdict
         /\ verdicts[g - 1] # NoVerdict
         /\ ~verdicts[g].isUserEligible
         /\ verdicts[g - 1] = verdicts[g]
         /\ ShownFor(g - 1))
            => ~ShownFor(g)

\* C8: while the subscription fetch of an invocation is unresolved, that
\* invocation has computed no verdict, emitted nothing, registered nothing,
\* shown no notification and thrown nothing.
C8_SilentWhilePending ==
    gen \in pendingFetches =>
        /\ verdicts[gen] = NoVerdict
        /\ gen \notin emitted
        /\ HandlesOf(gen) = {}
        /\ disposables = <<>>
        /\ ~NotifiedFor(gen)
        /\ gen \notin thrown

C8_Witness ==
    /\ status = "fetching"
    /\ gen \in pendingFetches
    /\ gen >= 2
    /\ verdicts[gen - 1] # NoVerdict

\* C9: in test mode the evaluator returns eligible with no reason, whatever
\* the flag, the authentication status, the subscription and the runtime.
C9_TestModeForcesEligible ==
    (probe.applied /\ testing) =>
        probe.result = [isUserEligible |-> TRUE, nonEligibilityReason |-> Undefined]

C9_Witness ==
    /\ probe.applied
    /\ testing
    /\ insideAgent
    /\ ~probe.authStatus.authenticated
    /\ probe.productSubscription = "null"
    /\ ~probe.autoeditsFeatureFlagEnabled

\* C10: outside test mode, inside the agent, the evaluator returns ineligible
\* with the only-in-VS-Code reason, whatever the subscription and the flag.
C10_AgentOutranksPlanAndFlag ==
    (probe.applied /\ ~testing /\ insideAgent) =>
        probe.result = [isUserEligible |-> FALSE,
                        nonEligibilityReason |-> ONLY_VSCODE_SUPPORT]

C10_Witness ==
    /\ probe.applied
    /\ ~testing
    /\ insideAgent
    /\ probe.productSubscription = "free"
    /\ probe.autoeditsFeatureFlagEnabled

\* C11: outside test mode and outside the agent, a free-plan user gets
\* ineligible with the Cody Pro reason, whether the flag is on or off.
C11_FreePlanOutranksFlag ==
    (/\ probe.applied
     /\ ~testing
     /\ ~insideAgent
     /\ probe.authStatus.authenticated
     /\ probe.productSubscription = "free")
        => probe.result = [isUserEligible |-> FALSE,
                           nonEligibilityReason |-> PRO_USER_ONLY]

C11_Witness ==
    /\ probe.applied
    /\ ~testing
    /\ ~insideAgent
    /\ probe.authStatus.authenticated
    /\ probe.productSubscription = "free"
    /\ probe.autoeditsFeatureFlagEnabled
    /\ ~probe.result.isUserEligible

\* C12: outside test mode and outside the agent, for an authenticated paid
\* user the verdict's eligibility is the flag: on gives eligible with no
\* reason, off gives ineligible with the not-enabled-for-your-account reason.
C12_EligibilityIsFlag ==
    (/\ probe.applied
     /\ ~testing
     /\ ~insideAgent
     /\ probe.authStatus.authenticated
     /\ probe.productSubscription = "pro")
        => probe.result =
             IF probe.autoeditsFeatureFlagEnabled
             THEN [isUserEligible |-> TRUE, nonEligibilityReason |-> Undefined]
             ELSE [isUserEligible |-> FALSE,
                   nonEligibilityReason |-> FEATURE_FLAG_NOT_ELIGIBLE]

C12_Witness ==
    /\ probe.applied
    /\ ~testing
    /\ ~insideAgent
    /\ probe.authStatus.authenticated
    /\ probe.productSubscription = "pro"
    /\ ~probe.autoeditsFeatureFlagEnabled
    /\ probe.result.nonEligibilityReason = FEATURE_FLAG_NOT_ELIGIBLE

\* C13: every verdict the evaluator returns has a reason if and only if it
\* is ineligible.
C13_ReasonIffIneligible ==
    probe.applied =>
        /\ probe.result \in AutoeditsUserEligibilityInfo
        /\ (probe.result.nonEligibilityReason # Undefined)
               <=> ~probe.result.isUserEligible

C13_Witness ==
    /\ probe.applied
    /\ ~testing
    /\ ~insideAgent
    /\ probe.result.isUserEligible
    /\ probe.result.nonEligibilityReason = Undefined
    /\ probe.productSubscription = "null"

\* C14 (as stated): outside test mode the evaluator's verdict is ineligible
\* whenever authentication is not established, whatever the runtime, the
\* subscription and the flag.
C14_EvaluatorIneligibleWhenUnauthenticated ==
    (probe.applied /\ ~testing /\ ~probe.authStatus.authenticated)
        => ~probe.result.isUserEligible

\* C14 (amended): when authentication is not established,
\* createAutoEditsProvider returns NEVER, whatever the test mode, the runtime,
\* the subscription, the flag and the master switch: the rule is applied
\* there, before the evaluator could be invoked.
C14_NeverWhenUnauthenticated ==
    (probe.applied /\ ~probe.authStatus.authenticated)
        => probe.returned = "NEVER"

C14_Witness ==
    /\ probe.applied
    /\ ~testing
    /\ ~insideAgent
    /\ ~probe.authStatus.authenticated
    /\ probe.authStatus.pendingValidation
    /\ probe.experimentalAutoEditEnabled
    /\ probe.returned = "NEVER"
    /\ probe.result.isUserEligible

NotificationsFor(g) == {i \in DOMAIN notifications : notifications[i].gen = g}

\* C15: the global suggestion mode is the autocomplete fallback if and only
\* if the user selected 'Switch to autocomplete' on some prompt (and the host
\* applied the update); a dismissed prompt leaves the configuration as it was.
C15_UpdateIffSelected ==
    (suggestionsMode = "autocomplete")
        <=> (\E i \in DOMAIN notifications : notifications[i].state = "selected")

C15_Witness ==
    /\ suggestionsMode = "auto-edit"
    /\ Len(notifications) >= 2
    /\ \A i \in DOMAIN notifications : notifications[i].state = "dismissed"

\* C16: every tick that computed a verdict completed; when the verdict is
\* ineligible the notification handler was called exactly once, with that
\* verdict's reason, and while the tick is the latest nothing is registered
\* and the list in place is empty; when the verdict is eligible no
\* notification was called and while the tick is the latest its resource set,
\* and nothing else, is in place.
C16_NotifyXorCreate ==
    \A g \in Gens :
        verdicts[g] # NoVerdict =>
            /\ g \in emitted
            /\ IF verdicts[g].isUserEligible
               THEN /\ NotificationsFor(g) = {}
                    /\ (g = gen /\ status = "active") =>
                          /\ disposables = ResourceSet(g)
                          /\ registered = Range(ResourceSet(g))
               ELSE /\ Cardinality(NotificationsFor(g)) = 1
                    /\ \A i \in NotificationsFor(g) :
                          notifications[i].message =
                              PromptMessage(verdicts[g].nonEligibilityReason)
                    /\ (g = gen /\ status = "active") =>
                          /\ disposables = <<>>
                          /\ registered = {}

\* C17: while a prompt is unanswered its tick has completed, with the empty
\* list in place while that tick is the latest, and the pipeline still
\* takes the next upstream tick and the teardown.
C17_PromptNotAwaited ==
    \A i \in DOMAIN notifications :
        notifications[i].state = "shown" =>
            /\ notifications[i].gen \in emitted
            /\ (notifications[i].gen = gen /\ status # "stopped") =>
                  (status = "active" /\ disposables = <<>>)
            /\ (status # "stopped" /\ gen < MaxTicks) => ENABLED AnyTick
            /\ ENABLED Stop

C17_Witness ==
    \E i \in DOMAIN notifications :
        /\ notifications[i].state = "shown"
        /\ notifications[i].gen < gen
        /\ status = "active"
        /\ disposables = ResourceSet(gen)

\* C18: a step in which the notification handler's promise rejects (the
\* prompt cannot be presented, or the configuration update fails) throws
\* nothing out of the pipeline and leaves the resource state as a successful
\* notification would: the tick completes with the empty list; a failed
\* update changes no pipeline state.
C18_NotificationFailureSwallowed ==
    [][\A g \in Gens :
          (~RejectedFor(g) /\ RejectedFor(g)') =>
              /\ thrown' = thrown
              /\ IF lastOp'.op = "respond"
                 THEN UNCHANGED <<disposables, registered, disposeCount,
                                  status, emitted, verdicts>>
                 ELSE /\ status' = "active"
                      /\ g \in emitted'
                      /\ disposables' = <<>>
                      /\ registered' = disposeAll(registered, disposables)]_vars

C18_Witness ==
    \E i \in DOMAIN notifications :
        /\ notifications[i].state = "failed"
        /\ notifications[i].gen < gen
        /\ status = "active"
        /\ disposables = ResourceSet(gen)
        /\ thrown = {}

\* C19: no handle is disposed twice; once the pipeline is torn down, a further
\* teardown (or any later step) disposes nothing, changes no resource state
\* and raises no error; a disposal of the empty list disposes nothing.
C19_DisposalIdempotent ==
    [][/\ \A h \in AllHandles : disposeCount'[h] <= 1
       /\ status = "stopped" =>
              UNCHANGED <<registered, disposables, disposeCount, thrown, status>>
       /\ disposables = <<>> =>
              (disposeCount' = disposeCount /\ registered \subseteq registered')]_vars

C19_Witness ==
    /\ lastOp.op = "stopAgain"
    /\ \E h \in AllHandles : disposeCount[h] = 1

\* C20: every invocation of the manual-trigger command issues the hide
\* command first, and has issued the trigger command only once its own hide
\* command has completed.
C20_HideCompletesBeforeTrigger ==
    \A r \in Runs :
        /\ manualTrigger[r].trigger # "none" => manualTrigger[r].hide = "completed"
        /\ manualTrigger[r].hide \in {"issued", "failed"} =>
               manualTrigger[r].trigger = "none"

C20_Witness ==
    \E r1, r2 \in Runs :
        /\ manualTrigger[r1] = [hide |-> "completed", trigger |-> "completed"]
        /\ manualTrigger[r2] = [hide |-> "issued", trigger |-> "none"]
        /\ status = "stopped"

====
